---- MODULE Spec2Model ----
(***************************************************************************)
(* Mirror conditions (util/conditions/v1beta2/mirror.go).                  *)
(*                                                                         *)
(* Strings that the code formats, trims or embeds in other strings         *)
(* (condition types, messages, owner labels) are sequences of one          *)
(* character strings, so that fmt.Sprintf is concatenation and             *)
(* strings.TrimSpace really removes characters.  Status and Reason are     *)
(* only copied and compared, and stay atomic strings.                      *)
(*                                                                         *)
(* Conditions reached through a *metav1.Condition live in `heap`, so that  *)
(* "a new condition" and "the same condition" are different things.        *)
(***************************************************************************)
EXTENDS Integers, Sequences, FiniteSets, TLC

VARIABLES
    heap,       \* Addr -> condition value, or Free
    sourceObj,  \* the typed source object (a Getter)
    uObj,       \* the unstructured source object (runtime.Unstructured)
    tgt,        \* the target object (a Setter) of the last call, after it
    held,       \* the *metav1.Condition the caller got from NewMirrorCondition
    call,       \* history: the last operation, what it was given and what it made
    watch,      \* history: the builder inputs whose outputs are compared
    first,      \* history: output of the first builder run on `watch`
    hits        \* history: 0 no run on `watch` yet, 1 one run, 2 one run and then
                \* other steps, 3 a further run after other steps

vars == <<heap, sourceObj, uObj, tgt, held, call, watch, first, hits>>

---------------------------------------------------------------------------
(* Bounds of the model *)

MaxOpts == 2    \* longest option sequence passed to one call
MaxAddr == 5    \* heap cells

---------------------------------------------------------------------------
(* Values *)

\* a nil *metav1.Condition
Nil == 0

\* the zero metav1.Time / the unset ObservedGeneration
Unset == 0

\* what time.Now() may return to Set
Times == {3}

Addr == 1 .. MaxAddr

Free == [free |-> TRUE]

NoCond == [absent |-> TRUE]

NoErr == "nil"

S_Ready == <<"R", "e", "a", "d", "y">>
S_Infra == <<"I", "n", "f", "r", "a">>
S_Up == <<"U", "p">>
S_Machine == <<"M", "a", "c", "h", "i", "n", "e">>

White == {" ", "\t", "\n", "\r"}

NotYetReportedReason == "NotYetReported"

ConditionUnknown == "Unknown"

SourceTypes == {S_Ready, S_Infra}

cA == [Type |-> S_Ready, Status |-> "False", Reason |-> "WaitingForInfra",
       Message |-> <<"n", "o">>, LastTransitionTime |-> 1, ObservedGeneration |-> 7]

cB == [Type |-> S_Ready, Status |-> "True", Reason |-> "Up",
       Message |-> <<>>, LastTransitionTime |-> 2, ObservedGeneration |-> Unset]

cW == [Type |-> S_Ready, Status |-> "Unknown", Reason |-> "",
       Message |-> <<" ", "w", "\t">>, LastTransitionTime |-> 1, ObservedGeneration |-> 7]

cI == [Type |-> S_Infra, Status |-> "True", Reason |-> "Provisioned",
       Message |-> <<"\n">>, LastTransitionTime |-> 2, ObservedGeneration |-> 7]

SourceValues == {cA, cB, cW, cI}

---------------------------------------------------------------------------
(* Strings *)

RECURSIVE TrimLeft(_)
TrimLeft(s) ==
    IF s = <<>> THEN s
    ELSE IF Head(s) \in White THEN TrimLeft(Tail(s)) ELSE s

RECURSIVE TrimRight(_)
TrimRight(s) ==
    IF s = <<>> THEN s
    ELSE IF s[Len(s)] \in White THEN TrimRight(SubSeq(s, 1, Len(s) - 1)) ELSE s

\* strings.TrimSpace
TrimSpace(s) == TrimRight(TrimLeft(s))

\* fmt.Sprintf("%s (from %s)", message, conditionOwner)
SprintfFrom(message, conditionOwner) ==
    message \o <<" ", "(", "f", "r", "o", "m", " ">> \o conditionOwner \o <<")">>

\* fmt.Sprintf("Condition %s not yet reported from %s", sourceConditionType, conditionOwner)
SprintfNotYetReported(sourceConditionType, conditionOwner) ==
    <<"C", "o", "n", "d", "i", "t", "i", "o", "n", " ">>
        \o sourceConditionType
        \o <<" ", "n", "o", "t", " ", "y", "e", "t", " ",
             "r", "e", "p", "o", "r", "t", "e", "d", " ", "f", "r", "o", "m", " ">>
        \o conditionOwner

---------------------------------------------------------------------------
(* Option directives and MirrorOptions *)

TargetUp == [kind |-> "TargetConditionType", type |-> S_Up]

TargetInfra == [kind |-> "TargetConditionType", type |-> S_Infra]

FallbackUp == [kind |-> "FallbackCondition", status |-> "True",
               reason |-> "Provisioned", message |-> <<"u", "p">>]

FallbackNoStatus == [kind |-> "FallbackCondition", status |-> "",
                     reason |-> "Gone", message |-> <<"g">>]

Directives == {TargetUp, TargetInfra, FallbackUp, FallbackNoStatus}

\* the option sequences passed to a call: up to MaxOpts directives, none twice
OptionSeqs ==
    UNION {{opts \in [1 .. n -> Directives] :
                \A i, j \in 1 .. n : opts[i] = opts[j] => i = j}
           : n \in 0 .. MaxOpts}

\* where newMirrorCondition keeps its MirrorOptions instance
OptAddr == 1

\* MirrorOptions{targetConditionType: sourceConditionType}
MirrorOptions(sourceConditionType) ==
    [targetConditionType |-> sourceConditionType,
     fallbackStatus |-> "",
     fallbackReason |-> "",
     fallbackMessage |-> <<>>]

\* opt.ApplyToMirror(o): the directive writes its fields into the instance at o
ApplyToMirror(opt, os, o) ==
    IF opt.kind = "TargetConditionType"
    THEN [os EXCEPT ![o].targetConditionType = opt.type]
    ELSE [os EXCEPT ![o].fallbackStatus = opt.status,
                    ![o].fallbackReason = opt.reason,
                    ![o].fallbackMessage = opt.message]

RECURSIVE ApplyEach(_, _, _)
ApplyEach(os, o, opts) ==
    IF opts = <<>> THEN os
    ELSE ApplyEach(ApplyToMirror(Head(opts), os, o), o, Tail(opts))

RECURSIVE ApplyEachBackwards(_, _, _)
ApplyEachBackwards(os, o, opts) ==
    IF opts = <<>> THEN os
    ELSE ApplyEachBackwards(ApplyToMirror(opts[Len(opts)], os, o), o,
                            SubSeq(opts, 1, Len(opts) - 1))

\* faulty variant: the directives are applied last to first
ApplyOptions_Backwards(os, o, opts) ==
    [os |-> ApplyEachBackwards(os, o, opts), ret |-> o]

\* (o *MirrorOptions) ApplyOptions(opts): the instances afterwards, and the
\* pointer returned
ApplyOptions(os, o, opts) == [os |-> ApplyEach(os, o, opts), ret |-> o]

---------------------------------------------------------------------------
(* Collaborators: owner label, Get, UnstructuredGet, Set *)

\* getConditionOwnerInfo(sourceObj), as printed by %s
getConditionOwnerInfo(obj) == obj.kind \o <<"/">> \o obj.name

Deref(h, a) == IF a = Nil THEN NoCond ELSE h[a]

\* the lowest free cell
Alloc(h) == CHOOSE a \in Addr : h[a] = Free /\ \A b \in Addr : h[b] = Free => a <= b

\* cells no pointer reaches are collected
GC(h, live) == [a \in Addr |-> IF a \in live THEN h[a] ELSE Free]

SourceAddrs(obj) == {obj.conds[i] : i \in 1 .. Len(obj.conds)}

\* Get(sourceObj, sourceConditionType): pointer to the condition of that type, or nil
Get(h, obj, conditionType) ==
    LET idx == {i \in 1 .. Len(obj.conds) : h[obj.conds[i]].Type = conditionType}
    IN IF idx = {} THEN Nil
       ELSE obj.conds[CHOOSE i \in idx : \A j \in idx : i <= j]

\* UnstructuredGet(sourceObj, sourceConditionType): decodes the entry into a
\* new condition, or returns nil (no such entry), or fails
UnstructuredGet(h, u, conditionType) ==
    LET raw == u.raw[conditionType]
    IN CASE raw.state = "malformed" -> [heap |-> h, cond |-> Nil, err |-> raw.err]
         [] raw.state = "absent" -> [heap |-> h, cond |-> Nil, err |-> NoErr]
         [] OTHER -> [heap |-> [h EXCEPT ![Alloc(h)] = raw.cond],
                      cond |-> Alloc(h), err |-> NoErr]

\* Set(targetObj, condition): stamps the target's generation and, when the
\* condition has none, the transition time; replaces the entry of the same
\* Type or appends
Set(t, condition, clock) ==
    LET stamped == [condition EXCEPT
                        !.LastTransitionTime = IF @ = Unset THEN clock ELSE @,
                        !.ObservedGeneration = t.generation]
        idx == {i \in 1 .. Len(t.conds) : t.conds[i].Type = condition.Type}
        at == CHOOSE i \in idx : \A j \in idx : i <= j
    IN IF idx = {} THEN [t EXCEPT !.conds = Append(@, stamped)]
       ELSE [t EXCEPT !.conds[at] = stamped]

---------------------------------------------------------------------------
(* mirror.go *)

\* faulty variant: the message is not trimmed
mirrorOfCondition_Untrimmed(mirrorOpt, condition, conditionOwner) ==
    [Type |-> mirrorOpt.targetConditionType,
     Status |-> condition.Status,
     LastTransitionTime |-> condition.LastTransitionTime,
     Reason |-> condition.Reason,
     Message |-> SprintfFrom(condition.Message, conditionOwner),
     ObservedGeneration |-> Unset]

\* the condition returned when the source condition is there
mirrorOfCondition(mirrorOpt, condition, conditionOwner) ==
    [Type |-> mirrorOpt.targetConditionType,
     Status |-> condition.Status,
     LastTransitionTime |-> condition.LastTransitionTime,
     Reason |-> condition.Reason,
     Message |-> TrimSpace(SprintfFrom(condition.Message, conditionOwner)),
     ObservedGeneration |-> Unset]

\* faulty variant: the reason of the placeholder instead of the fallback's
fallbackCondition_PlaceholderReason(mirrorOpt) ==
    [Type |-> mirrorOpt.targetConditionType,
     Status |-> mirrorOpt.fallbackStatus,
     LastTransitionTime |-> Unset,
     Reason |-> NotYetReportedReason,
     Message |-> mirrorOpt.fallbackMessage,
     ObservedGeneration |-> Unset]

\* the condition returned when it is missing and a fallback status is set
fallbackCondition(mirrorOpt) ==
    [Type |-> mirrorOpt.targetConditionType,
     Status |-> mirrorOpt.fallbackStatus,
     LastTransitionTime |-> Unset,
     Reason |-> mirrorOpt.fallbackReason,
     Message |-> mirrorOpt.fallbackMessage,
     ObservedGeneration |-> Unset]

\* faulty variant: the message names the target type
notYetReportedCondition_TargetType(mirrorOpt, sourceConditionType, conditionOwner) ==
    [Type |-> mirrorOpt.targetConditionType,
     Status |-> ConditionUnknown,
     LastTransitionTime |-> Unset,
     Reason |-> NotYetReportedReason,
     Message |-> SprintfNotYetReported(mirrorOpt.targetConditionType, conditionOwner),
     ObservedGeneration |-> Unset]

\* the condition returned when it is missing and no fallback status is set
notYetReportedCondition(mirrorOpt, sourceConditionType, conditionOwner) ==
    [Type |-> mirrorOpt.targetConditionType,
     Status |-> ConditionUnknown,
     LastTransitionTime |-> Unset,
     Reason |-> NotYetReportedReason,
     Message |-> SprintfNotYetReported(sourceConditionType, conditionOwner),
     ObservedGeneration |-> Unset]

\* faulty variant: a fallback counts as set when it has a reason
mirrorCase_OnReason(condition, mirrorOpt) ==
    IF condition # Nil THEN "mirror"
    ELSE IF mirrorOpt.fallbackReason # "" THEN "fallback"
    ELSE "notYetReported"

\* which condition newMirrorCondition returns
mirrorCase(condition, mirrorOpt) ==
    IF condition # Nil THEN "mirror"
    ELSE IF mirrorOpt.fallbackStatus # "" THEN "fallback"
    ELSE "notYetReported"

\* faulty variant: the source condition is rewritten in place and returned
newMirrorCondition_InPlace(h, obj, condition, sourceConditionType, opts) ==
    LET applied == ApplyOptions(OptAddr :> MirrorOptions(sourceConditionType),
                                OptAddr, opts)
        mirrorOpt == applied.os[OptAddr]
        conditionOwner == getConditionOwnerInfo(obj)
        new == Alloc(h)
    IN CASE mirrorCase(condition, mirrorOpt) = "mirror" ->
              [heap |-> [h EXCEPT ![condition] =
                            mirrorOfCondition(mirrorOpt, h[condition], conditionOwner)],
               ret |-> condition]
         [] mirrorCase(condition, mirrorOpt) = "fallback" ->
              [heap |-> [h EXCEPT ![new] = fallbackCondition(mirrorOpt)],
               ret |-> new]
         [] OTHER ->
              [heap |-> [h EXCEPT ![new] =
                            notYetReportedCondition(mirrorOpt, sourceConditionType,
                                                    conditionOwner)],
               ret |-> new]

\* faulty variant: one MirrorOptions instance serves every call, and a fallback set in
\* an earlier call is still in it
newMirrorCondition_SharedOptions(h, obj, condition, sourceConditionType, opts) ==
    LET shared == IF "options" \in DOMAIN call
                  THEN [call.options.atSelf EXCEPT
                            !.targetConditionType = sourceConditionType]
                  ELSE MirrorOptions(sourceConditionType)
        applied == ApplyOptions(OptAddr :> shared, OptAddr, opts)
        mirrorOpt == applied.os[OptAddr]
        conditionOwner == getConditionOwnerInfo(obj)
        new == Alloc(h)
    IN CASE mirrorCase(condition, mirrorOpt) = "mirror" ->
              [heap |-> [h EXCEPT ![new] =
                            mirrorOfCondition(mirrorOpt, h[condition], conditionOwner)],
               ret |-> new]
         [] mirrorCase(condition, mirrorOpt) = "fallback" ->
              [heap |-> [h EXCEPT ![new] = fallbackCondition(mirrorOpt)],
               ret |-> new]
         [] OTHER ->
              [heap |-> [h EXCEPT ![new] =
                            notYetReportedCondition(mirrorOpt, sourceConditionType,
                                                    conditionOwner)],
               ret |-> new]

\* newMirrorCondition(sourceObj, condition, sourceConditionType, opts): the
\* heap afterwards and the pointer returned
newMirrorCondition(h, obj, condition, sourceConditionType, opts) ==
    LET applied == ApplyOptions(OptAddr :> MirrorOptions(sourceConditionType),
                                OptAddr, opts)
        mirrorOpt == applied.os[OptAddr]
        conditionOwner == getConditionOwnerInfo(obj)
        new == Alloc(h)
    IN CASE mirrorCase(condition, mirrorOpt) = "mirror" ->
              [heap |-> [h EXCEPT ![new] =
                            mirrorOfCondition(mirrorOpt, h[condition], conditionOwner)],
               ret |-> new]
         [] mirrorCase(condition, mirrorOpt) = "fallback" ->
              [heap |-> [h EXCEPT ![new] = fallbackCondition(mirrorOpt)],
               ret |-> new]
         [] OTHER ->
              [heap |-> [h EXCEPT ![new] =
                            notYetReportedCondition(mirrorOpt, sourceConditionType,
                                                    conditionOwner)],
               ret |-> new]

\* NewMirrorCondition(sourceObj, sourceConditionType, opts...)
NewMirrorCondition(h, obj, sourceConditionType, opts) ==
    newMirrorCondition(h, obj, Get(h, obj, sourceConditionType),
                       sourceConditionType, opts)

\* faulty variant: the options are not passed on to NewMirrorCondition
SetMirrorCondition_NoOptions(h, obj, t, sourceConditionType, opts, clock) ==
    LET made == NewMirrorCondition(h, obj, sourceConditionType, <<>>)
    IN [heap |-> made.heap,
        tgt |-> Set(t, made.heap[made.ret], clock),
        written |-> <<made.heap[made.ret]>>]

\* SetMirrorCondition(sourceObj, targetObj, sourceConditionType, opts...): the
\* heap and the target afterwards, and the conditions handed to Set
SetMirrorCondition(h, obj, t, sourceConditionType, opts, clock) ==
    LET made == NewMirrorCondition(h, obj, sourceConditionType, opts)
    IN [heap |-> made.heap,
        tgt |-> Set(t, made.heap[made.ret], clock),
        written |-> <<made.heap[made.ret]>>]

\* faulty variant: the error is returned after the write instead of before it
SetMirrorConditionFromUnstructured_WritesFirst(h, u, t, sourceConditionType, opts, clock) ==
    LET got == UnstructuredGet(h, u, sourceConditionType)
        made == newMirrorCondition(got.heap, u, got.cond, sourceConditionType, opts)
    IN [heap |-> made.heap,
        tgt |-> Set(t, made.heap[made.ret], clock),
        written |-> <<made.heap[made.ret]>>, err |-> got.err]

\* faulty variant: nothing is written when there is no condition to decode
SetMirrorConditionFromUnstructured_SkipsAbsent(h, u, t, sourceConditionType, opts, clock) ==
    LET got == UnstructuredGet(h, u, sourceConditionType)
        made == newMirrorCondition(got.heap, u, got.cond, sourceConditionType, opts)
    IN IF got.err # NoErr \/ got.cond = Nil
       THEN [heap |-> got.heap, tgt |-> t, written |-> <<>>, err |-> got.err]
       ELSE [heap |-> made.heap,
             tgt |-> Set(t, made.heap[made.ret], clock),
             written |-> <<made.heap[made.ret]>>, err |-> NoErr]

\* SetMirrorConditionFromUnstructured(sourceObj, targetObj, sourceConditionType,
\* opts...): the heap and the target afterwards, the conditions handed to Set,
\* and the error returned
SetMirrorConditionFromUnstructured(h, u, t, sourceConditionType, opts, clock) ==
    LET got == UnstructuredGet(h, u, sourceConditionType)
        made == newMirrorCondition(got.heap, u, got.cond, sourceConditionType, opts)
    IN IF got.err # NoErr
       THEN [heap |-> got.heap, tgt |-> t, written |-> <<>>, err |-> got.err]
       ELSE [heap |-> made.heap,
             tgt |-> Set(t, made.heap[made.ret], clock),
             written |-> <<made.heap[made.ret]>>, err |-> NoErr]

\* BoolToStatus(status)
BoolToStatus(status) == IF status THEN "True" ELSE "False"

---------------------------------------------------------------------------
(* Initial states *)

S_m1 == <<"m", "1">>
S_m2 == <<"m", "2">>

RawAbsent == [state |-> "absent"]

RawOk(c) == [state |-> "ok", cond |-> c]

RawMalformed(e) == [state |-> "malformed", err |-> e]

oldReady == [Type |-> S_Ready, Status |-> "True", Reason |-> "Old",
             Message |-> <<"o">>, LastTransitionTime |-> 1, ObservedGeneration |-> 3]

oldUp == [Type |-> S_Up, Status |-> "False", Reason |-> "Old",
          Message |-> <<"o">>, LastTransitionTime |-> 2, ObservedGeneration |-> 3]

\* conditions the target object starts with
TargetInits == {<<>>, <<oldUp, oldReady>>}

NoWatch == [none |-> TRUE]

TargetObjs == {[generation |-> 4, conds |-> conds] : conds \in TargetInits}

\* the source objects a behaviour starts with
Scenarios ==
    {[source |-> <<>>,
      raw |-> (S_Ready :> RawOk(cW)) @@ (S_Infra :> RawAbsent)],
     [source |-> <<cA>>,
      raw |-> (S_Ready :> RawMalformed("ErrNotASlice")) @@ (S_Infra :> RawOk(cI))],
     [source |-> <<cI, cB>>,
      raw |-> (S_Ready :> RawAbsent) @@ (S_Infra :> RawMalformed("ErrBadStatus"))]}

InitWith(scenarios) ==
    /\ \E sc \in scenarios :
        /\ heap = [a \in Addr |-> IF a <= Len(sc.source) THEN sc.source[a] ELSE Free]
        /\ sourceObj = [repr |-> "typed", kind |-> S_Machine, name |-> S_m1,
                        conds |-> [i \in 1 .. Len(sc.source) |-> i]]
        /\ uObj = [repr |-> "unstructured", kind |-> S_Machine, name |-> S_m2,
                   raw |-> sc.raw]
    /\ tgt \in TargetObjs
    /\ held = Nil
    /\ call = [op |-> "none"]
    /\ first = NoCond
    /\ hits = 0

---------------------------------------------------------------------------
(* History *)

\* what one run of the builder was given
Inputs(obj, cond, sct, opts) ==
    [obj |-> [repr |-> obj.repr, kind |-> obj.kind, name |-> obj.name],
     cond |-> cond, sct |-> sct, opts |-> opts]

\* the MirrorOptions instance of a builder run, after ApplyOptions
OptionsTrace(sct, opts) ==
    LET applied == ApplyOptions(OptAddr :> MirrorOptions(sct), OptAddr, opts)
    IN [self |-> OptAddr, ret |-> applied.ret,
        atSelf |-> applied.os[OptAddr], atRet |-> applied.os[applied.ret]]

\* a call: `in` and `out` are the builder's inputs and its output (NoCond when
\* the builder did not run), `target` the target object before the call,
\* `clock` the time Set read,
\* `written` the conditions handed to Set
Record(op, in, out, err, target, clock, written) ==
    /\ call' = [op |-> op, in |-> in, out |-> out, err |-> err,
                target |-> target, clock |-> clock, written |-> written,
                options |-> OptionsTrace(in.sct, in.opts)]
    /\ first' = IF in = watch /\ first = NoCond /\ out # NoCond THEN out ELSE first
    /\ hits' = IF in = watch /\ out # NoCond
               THEN (IF hits = 0 THEN 1 ELSE IF hits = 2 THEN 3 ELSE hits)
               ELSE (IF hits = 1 THEN 2 ELSE hits)

RecordOther(op) ==
    /\ call' = [op |-> op]
    /\ first' = first
    /\ hits' = IF hits = 1 THEN 2 ELSE hits

---------------------------------------------------------------------------
(* Operations *)

\* a caller runs NewMirrorCondition and keeps the pointer
CallNewMirrorCondition ==
    \E sct \in SourceTypes, opts \in OptionSeqs :
        LET made == NewMirrorCondition(heap, sourceObj, sct, opts)
        IN /\ held' = made.ret
           /\ heap' = GC(made.heap, SourceAddrs(sourceObj) \cup {made.ret})
           /\ Record("NewMirrorCondition",
                     Inputs(sourceObj, Deref(heap, Get(heap, sourceObj, sct)), sct, opts),
                     made.heap[made.ret], NoErr, tgt, Unset, <<>>)
           /\ UNCHANGED <<sourceObj, uObj, tgt, watch>>

\* a caller runs SetMirrorCondition on one of the target objects
CallSetMirrorCondition ==
    \E target \in TargetObjs, sct \in SourceTypes, opts \in OptionSeqs, clock \in Times :
        LET done == SetMirrorCondition(heap, sourceObj, target, sct, opts, clock)
            made == NewMirrorCondition(heap, sourceObj, sct, opts)
        IN /\ tgt' = done.tgt
           /\ heap' = GC(done.heap, (SourceAddrs(sourceObj) \cup {held}) \ {Nil})
           /\ Record("SetMirrorCondition",
                     Inputs(sourceObj, Deref(heap, Get(heap, sourceObj, sct)), sct, opts),
                     made.heap[made.ret], NoErr, target, clock, done.written)
           /\ UNCHANGED <<sourceObj, uObj, held, watch>>

\* a caller runs SetMirrorConditionFromUnstructured on one of the target objects
CallSetMirrorConditionFromUnstructured ==
    \E target \in TargetObjs, sct \in SourceTypes, opts \in OptionSeqs, clock \in Times :
        LET done == SetMirrorConditionFromUnstructured(heap, uObj, target, sct, opts, clock)
            got == UnstructuredGet(heap, uObj, sct)
            made == newMirrorCondition(got.heap, uObj, got.cond, sct, opts)
        IN /\ tgt' = done.tgt
           /\ heap' = GC(done.heap, (SourceAddrs(sourceObj) \cup {held}) \ {Nil})
           /\ Record("SetMirrorConditionFromUnstructured",
                     Inputs(uObj, Deref(got.heap, got.cond), sct, opts),
                     IF got.err # NoErr THEN NoCond ELSE made.heap[made.ret],
                     done.err, target, clock, done.written)
           /\ UNCHANGED <<sourceObj, uObj, held, watch>>

---------------------------------------------------------------------------
(* The rest of the program: writes to the source object and writes through
   the pointer NewMirrorCondition returned *)

MutateSource ==
    \E i \in 1 .. Len(sourceObj.conds), v \in SourceValues :
        /\ v.Type = heap[sourceObj.conds[i]].Type
        /\ v # heap[sourceObj.conds[i]]
        /\ heap' = [heap EXCEPT ![sourceObj.conds[i]] = v]
        /\ RecordOther("MutateSource")
        /\ UNCHANGED <<sourceObj, uObj, tgt, held, watch>>

Edited == <<"e", "d", "i", "t">>

MutateProduced ==
    /\ held # Nil
    /\ heap[held].Message # Edited
    /\ heap' = [heap EXCEPT ![held].Message = Edited, ![held].Status = "False"]
    /\ RecordOther("MutateProduced")
    /\ UNCHANGED <<sourceObj, uObj, tgt, held, watch>>

---------------------------------------------------------------------------
(* Specifications *)

Init == InitWith(Scenarios) /\ tgt.conds = <<>> /\ watch = NoWatch

\* the builder, with the source and the produced condition changing around it

NextBuilder == CallNewMirrorCondition \/ MutateSource \/ MutateProduced

SpecBuilder == Init /\ [][NextBuilder]_vars

\* the convenience layer
NextSet == CallSetMirrorCondition \/ CallSetMirrorConditionFromUnstructured

SpecSet == Init /\ [][NextSet]_vars

\* the builder again, with the outputs of the runs on one watched input compared
TypedId == [repr |-> "typed", kind |-> S_Machine, name |-> S_m1]

Probes ==
    {[obj |-> TypedId, cond |-> cA, sct |-> S_Ready, opts |-> <<TargetUp>>],
     [obj |-> TypedId, cond |-> NoCond, sct |-> S_Infra, opts |-> <<FallbackUp>>],
     [obj |-> TypedId, cond |-> NoCond, sct |-> S_Ready, opts |-> <<>>],
     [obj |-> TypedId, cond |-> cB, sct |-> S_Ready,
      opts |-> <<FallbackUp, TargetInfra>>]}

InitDet == InitWith(Scenarios) /\ tgt.conds = <<>> /\ watch \in Probes

NextDet == CallNewMirrorCondition \/ MutateSource \/ MutateProduced

SpecDet == InitDet /\ [][NextDet]_vars

---------------------------------------------------------------------------
(* What the claims compare the operations with *)

\* s without its leading and trailing white space
Trimmed(s) ==
    LET keep == {i \in 1 .. Len(s) : s[i] \notin White}
        lo == CHOOSE i \in keep : \A j \in keep : i <= j
        hi == CHOOSE i \in keep : \A j \in keep : i >= j
    IN IF keep = {} THEN <<>> ELSE [k \in 1 .. (hi - lo + 1) |-> s[lo + k - 1]]

\* index of the last directive of that kind in opts, 0 when there is none
LastOf(opts, kind) ==
    LET idx == {i \in 1 .. Len(opts) : opts[i].kind = kind}
    IN IF idx = {} THEN 0 ELSE CHOOSE i \in idx : \A j \in idx : i >= j

FinalTarget(sct, opts) ==
    IF LastOf(opts, "TargetConditionType") = 0 THEN sct
    ELSE opts[LastOf(opts, "TargetConditionType")].type

FinalFallback(opts) ==
    IF LastOf(opts, "FallbackCondition") = 0
    THEN [status |-> "", reason |-> "", message |-> <<>>]
    ELSE [status |-> opts[LastOf(opts, "FallbackCondition")].status,
          reason |-> opts[LastOf(opts, "FallbackCondition")].reason,
          message |-> opts[LastOf(opts, "FallbackCondition")].message]

OwnerLabel(id) == getConditionOwnerInfo(id)

\* the last operation ran the builder
BuilderRan ==
    /\ call.op \in {"NewMirrorCondition", "SetMirrorCondition",
                   "SetMirrorConditionFromUnstructured"}
    /\ call.out # NoCond

Present == call.in.cond # NoCond

\* the conditions of the source object, as values
SourceView == [i \in 1 .. Len(sourceObj.conds) |-> heap[sourceObj.conds[i]]]

---------------------------------------------------------------------------
(* Claims *)

\* C1: when the source condition is present, the builder's output has Type =
\* the target condition type (the source type unless a directive overrode it),
\* Status, Reason and LastTransitionTime of the source condition, Message =
\* trim(sourceMessage + " (from " + ownerLabel + ")"), and no ObservedGeneration.
C1_CaseA ==
    (BuilderRan /\ Present) =>
        /\ call.out.Type = FinalTarget(call.in.sct, call.in.opts)
        /\ call.out.Status = call.in.cond.Status
        /\ call.out.Reason = call.in.cond.Reason
        /\ call.out.LastTransitionTime = call.in.cond.LastTransitionTime
        /\ call.out.Message =
              Trimmed(call.in.cond.Message \o <<" ", "(", "f", "r", "o", "m", " ">>
                        \o OwnerLabel(call.in.obj) \o <<")">>)
        /\ call.out.ObservedGeneration = Unset

\* a present condition with white space around its message and an
\* ObservedGeneration, mirrored under an overridden type
C1_Witness ==
    /\ BuilderRan /\ Present
    /\ call.in.cond = cW
    /\ call.in.sct = S_Ready
    /\ call.out.Type = S_Up

\* C2: when the source condition is absent and the final fallbackStatus is not
\* empty, the output has Type = the target condition type, Status, Reason and
\* Message = the fallback's, verbatim, and no LastTransitionTime.
C2_CaseB ==
    (BuilderRan /\ ~Present /\ FinalFallback(call.in.opts).status # "") =>
        /\ call.out.Type = FinalTarget(call.in.sct, call.in.opts)
        /\ call.out.Status = FinalFallback(call.in.opts).status
        /\ call.out.Reason = FinalFallback(call.in.opts).reason
        /\ call.out.Message = FinalFallback(call.in.opts).message
        /\ call.out.LastTransitionTime = Unset

C2_Witness ==
    /\ BuilderRan /\ ~Present
    /\ call.in.opts = <<TargetUp, FallbackUp>>
    /\ call.in.sct = S_Infra

\* C3: when the source condition is absent and no fallback status is set, the
\* output has Type = the target condition type, Status Unknown, Reason
\* NotYetReported, Message = "Condition <sourceConditionType> not yet reported
\* from <ownerLabel>" (the source type, also when the target type differs),
\* and no LastTransitionTime.
C3_CaseC ==
    (BuilderRan /\ ~Present /\ FinalFallback(call.in.opts).status = "") =>
        /\ call.out.Type = FinalTarget(call.in.sct, call.in.opts)
        /\ call.out.Status = "Unknown"
        /\ call.out.Reason = "NotYetReported"
        /\ call.out.Message =
              <<"C", "o", "n", "d", "i", "t", "i", "o", "n", " ">> \o call.in.sct
                \o <<" ", "n", "o", "t", " ", "y", "e", "t", " ", "r", "e", "p", "o",
                     "r", "t", "e", "d", " ", "f", "r", "o", "m", " ">>
                \o OwnerLabel(call.in.obj)
        /\ call.out.LastTransitionTime = Unset

\* the placeholder under an overridden target type
C3_Witness ==
    /\ BuilderRan /\ ~Present
    /\ call.in.opts = <<TargetUp>>
    /\ call.in.sct = S_Ready
    /\ call.out.Type = S_Up

\* C5: the directives are applied in the order given to the one MirrorOptions
\* instance: each field ends with the value of the last directive that writes
\* it, or its initial value (targetConditionType = sourceConditionType, empty
\* fallback fields); ApplyOptions returns that instance; and the builder's
\* output is made from those values.
C5_LastWriteWins ==
    BuilderRan =>
        /\ call.options.ret = call.options.self
        /\ call.options.atSelf =
              [targetConditionType |-> FinalTarget(call.in.sct, call.in.opts),
               fallbackStatus |-> FinalFallback(call.in.opts).status,
               fallbackReason |-> FinalFallback(call.in.opts).reason,
               fallbackMessage |-> FinalFallback(call.in.opts).message]
        /\ call.out.Type = call.options.atSelf.targetConditionType
        /\ (~Present /\ call.options.atSelf.fallbackStatus # "") =>
              /\ call.out.Status = call.options.atSelf.fallbackStatus
              /\ call.out.Reason = call.options.atSelf.fallbackReason
              /\ call.out.Message = call.options.atSelf.fallbackMessage

\* a fallback overwritten by a later one, with the condition absent
C5_Witness ==
    /\ BuilderRan /\ ~Present
    /\ call.in.opts = <<FallbackNoStatus, FallbackUp>>
    /\ call.out.Status = "True"

\* C4: when decoding the source condition fails,
\* SetMirrorConditionFromUnstructured returns that decode error, hands nothing
\* to Set and leaves the target's conditions as they were; when decoding
\* succeeds it returns no error and hands exactly one condition to Set.
C4_AllOrNothing ==
    call.op = "SetMirrorConditionFromUnstructured" =>
        IF uObj.raw[call.in.sct].state = "malformed"
        THEN /\ call.err = uObj.raw[call.in.sct].err
             /\ call.written = <<>>
             /\ tgt = call.target
        ELSE /\ call.err = NoErr
             /\ Len(call.written) = 1

\* a failed decode, with a target that holds conditions
C4_Witness ==
    /\ call.op = "SetMirrorConditionFromUnstructured"
    /\ uObj.raw[call.in.sct].state = "malformed"
    /\ call.err = "ErrNotASlice"
    /\ call.target.conds # <<>>

OtherTypes(conds, type) == SelectSeq(conds, LAMBDA c : c.Type # type)

OfType(conds, type) == SelectSeq(conds, LAMBDA c : c.Type = type)

\* C6: SetMirrorCondition hands Set exactly one condition, the builder's for
\* the source object's current condition of sourceConditionType; afterwards the
\* target holds exactly one condition of the target type, with the builder's
\* Status, Reason and Message, in the place of the earlier entry of that type
\* or at the end; the target's other conditions and the source object's
\* conditions are unchanged.
C6_OneWrite ==
    [][call'.op = "SetMirrorCondition" =>
        /\ call'.in.cond = Deref(heap, Get(heap, sourceObj, call'.in.sct))
        /\ call'.written = <<call'.out>>
        /\ Len(OfType(tgt'.conds, call'.out.Type)) = 1
        /\ OfType(tgt'.conds, call'.out.Type)[1].Status = call'.out.Status
        /\ OfType(tgt'.conds, call'.out.Type)[1].Reason = call'.out.Reason
        /\ OfType(tgt'.conds, call'.out.Type)[1].Message = call'.out.Message
        /\ OtherTypes(tgt'.conds, call'.out.Type)
              = OtherTypes(call'.target.conds, call'.out.Type)
        /\ IF OfType(call'.target.conds, call'.out.Type) = <<>>
           THEN /\ Len(tgt'.conds) = Len(call'.target.conds) + 1
                /\ tgt'.conds[Len(tgt'.conds)].Type = call'.out.Type
           ELSE /\ Len(tgt'.conds) = Len(call'.target.conds)
                /\ \A i \in 1 .. Len(tgt'.conds) :
                      tgt'.conds[i].Type = call'.target.conds[i].Type
        /\ sourceObj' = sourceObj
        /\ SourceView' = SourceView]_vars

\* an earlier entry of the target type was replaced, beside one of another type
C6_Witness ==
    /\ call.op = "SetMirrorCondition"
    /\ call.target.conds = <<oldUp, oldReady>>
    /\ call.out.Type = S_Ready
    /\ Present
    /\ tgt.conds[1] = oldUp
    /\ tgt.conds[2].Reason = call.in.cond.Reason

\* the typed object with the identity of u and the condition it decodes to
TypedTwin(u, cond) ==
    [obj |-> [repr |-> "typed", kind |-> u.kind, name |-> u.name,
              conds |-> IF cond = NoCond THEN <<>> ELSE <<1>>],
     heap |-> [a \in Addr |-> IF a = 1 /\ cond # NoCond THEN cond ELSE Free]]

\* C9: when decoding succeeds (a condition, or none and no error),
\* SetMirrorConditionFromUnstructured leaves the target as SetMirrorCondition
\* leaves it for a typed source with the same identity and the decoded
\* condition, the same sourceConditionType, options and target: it hands Set
\* the same condition.
C9_SameAsSetMirrorCondition ==
    (call.op = "SetMirrorConditionFromUnstructured" /\ call.err = NoErr) =>
        LET twin == TypedTwin(uObj, call.in.cond)
            typed == SetMirrorCondition(twin.heap, twin.obj, call.target,
                                        call.in.sct, call.in.opts, call.clock)
        IN /\ tgt = typed.tgt
           /\ call.written = typed.written

\* the decoded condition is absent and the placeholder is written over an
\* earlier entry
C9_Witness ==
    /\ call.op = "SetMirrorConditionFromUnstructured" /\ call.err = NoErr
    /\ ~Present
    /\ call.in.opts = <<>>
    /\ call.in.sct = S_Ready
    /\ call.target.conds = <<oldUp, oldReady>>
    /\ tgt.conds[2].Reason = "NotYetReported"

\* C8: the builder changes neither the source object nor its conditions; the
\* condition it returns is a new one: a later write to the source condition
\* leaves it as it was, and a write to it leaves the source's conditions as
\* they were.
C8_NoSideEffects ==
    [][/\ call'.op = "NewMirrorCondition" =>
            /\ sourceObj' = sourceObj
            /\ SourceView' = SourceView
            /\ held' \notin SourceAddrs(sourceObj)
       /\ (call'.op = "MutateSource" /\ held # Nil) =>
            /\ held' = held
            /\ heap'[held] = heap[held]
       /\ call'.op = "MutateProduced" => SourceView' = SourceView]_vars

\* the source condition was changed after its mirror was made
C8_Witness ==
    /\ call.op = "MutateSource"
    /\ held # Nil
    /\ heap[held].Reason = "WaitingForInfra"
    /\ heap[held].LastTransitionTime = cA.LastTransitionTime
    /\ \E a \in SourceAddrs(sourceObj) : heap[a].Reason # "WaitingForInfra"
                                         /\ heap[a].Type = S_Ready

\* C10: which of the three conditions the builder makes depends only on
\* whether the source condition is present and whether the final
\* fallbackStatus is empty.  Present: the mirror of the source condition, and
\* nothing of the fallback in it.  Absent with an empty fallbackStatus: the
\* Unknown / NotYetReported placeholder, whatever fallbackReason and
\* fallbackMessage are.  Absent otherwise: the fallback.
C10_CaseSelection ==
    BuilderRan =>
        LET fb == FinalFallback(call.in.opts)
            mirror == /\ call.out.Status = call.in.cond.Status
                      /\ call.out.Reason = call.in.cond.Reason
                      /\ call.out.LastTransitionTime = call.in.cond.LastTransitionTime
                      /\ call.out.Message =
                            Trimmed(call.in.cond.Message
                                      \o <<" ", "(", "f", "r", "o", "m", " ">>
                                      \o OwnerLabel(call.in.obj) \o <<")">>)
            placeholder == /\ call.out.Status = ConditionUnknown
                           /\ call.out.Reason = NotYetReportedReason
                           /\ call.out.Message # fb.message
                           /\ call.out.LastTransitionTime = Unset
            fallback == /\ call.out.Status = fb.status
                        /\ call.out.Reason = fb.reason
                        /\ call.out.Message = fb.message
                        /\ call.out.LastTransitionTime = Unset
        IN /\ Present => mirror
           /\ (~Present /\ fb.status = "") => (placeholder /\ ~fallback)
           /\ (~Present /\ fb.status # "") => (fallback /\ ~placeholder)

\* absent, the last fallback has a reason and a message and no status
C10_Witness ==
    /\ BuilderRan /\ ~Present
    /\ call.in.opts = <<FallbackUp, FallbackNoStatus>>
    /\ call.out.Reason = NotYetReportedReason

====
